---- MODULE Spec2Model ----
(***************************************************************************)
(* Art-resolution and enrichment pipeline of the TugaMovies add-on         *)
(* (src/addon.js): the persistent poster / find caches with their          *)
(* debounced save and signal handlers, the IMDb rate gate, the fetch       *)
(* client, the TMDB and IMDb art sources, bestPosterForTitle and           *)
(* pMapLimit.                                                              *)
(*                                                                         *)
(* Strings are modelled as sequences of tokens (one-character strings for  *)
(* titles, lexical tokens for host names and image URLs), so that trim,    *)
(* toLowerCase and the regular expressions of the source are computed.     *)
(* JavaScript's undefined and null are the one-element tuples Undefined    *)
(* and Null, so that every cache value is a tuple.                         *)
(***************************************************************************)
EXTENDS Integers, Sequences, FiniteSets, TLC

VARIABLES
    TMDB_KEY,        \* addon.js:28  TRUE iff process.env.TMDB_API_KEY is non-empty
    IMDB_MAX_RPS,    \* addon.js:29  requests per second ceiling, 0 = no limit
    now,             \* Date.now(), milliseconds
    ticks,           \* number of clock advances made so far (bounded)
    posterCache,     \* addon.js:39  Map: key -> poster URL | undefined
    imdbFindCache,   \* addon.js:38  Map: key -> imdb title URL | null
    saveTimer,       \* addon.js:61  the pending-save handle
    file,            \* contents of CACHE_FILE on disk
    proc,            \* "running" | "exited" | "crashed" (startup raised)
    exitTimers,      \* due times of the setTimeout(process.exit, 150) timers
    unsaved,         \* history: a put happened since the last successful write
    bootSnap,        \* history: the caches of the previous process at its end
    sigSnap,         \* history: the caches when the first signal was delivered
    puts,            \* number of cache puts made so far (bounded)
    calls,           \* bestPosterForTitle / parseMoviePage art lookups in flight
    firstRet,        \* history: key -> what the first completed bestPosterForTitle returned
    imdbTimestamps,  \* addon.js:141 the rate window
    gate,            \* callers of maybeRateLimitIMDb followed by their request
    fetches,         \* fetchText / fetchJSON calls
    items,           \* pMapLimit: its items argument
    limit,           \* pMapLimit: its limit argument
    i,               \* pMapLimit: the shared index counter (addon.js:337)
    results,         \* pMapLimit: the results array
    workers,         \* pMapLimit: one record per worker
    applied,         \* history: how many times the mapper was called on each index
    mapDone          \* pMapLimit: "idle" | "pending" | "resolved" | "rejected"

cfgVars   == <<TMDB_KEY, IMDB_MAX_RPS>>
clockVars == <<now, ticks>>
cacheVars == <<posterCache, imdbFindCache, saveTimer, file, proc, exitTimers,
               unsaved, bootSnap, sigSnap, puts>>
gateVars  == <<imdbTimestamps, gate>>
mapVars   == <<items, limit, i, results, workers, applied, mapDone>>
artVars   == <<calls, firstRet>>
vars == <<cfgVars, clockVars, cacheVars, artVars, gateVars, fetches, mapVars>>

----------------------------------------------------------------------------
(* Values and small helpers *)

Undefined == <<"undefined">>
Null == <<"null">>

Min(a, b) == IF a <= b THEN a ELSE b

\* JavaScript truthiness of a cache value (a URL string is non-empty).
Truthy(v) == v # Undefined /\ v # Null /\ v # <<>>

\* Map.prototype.has / get / set on a Map modelled as a function.
MapHas(m, k) == k \in DOMAIN m
MapGet(m, k) == IF k \in DOMAIN m THEN m[k] ELSE Undefined
MapSet(m, k, v) == [x \in (DOMAIN m) \cup {k} |-> IF x = k THEN v ELSE m[x]]
EmptyMap == [x \in {} |-> Undefined]

\* String.prototype.trim and toLowerCase over one-character tokens.
IsSpace(ch) == ch = " "
RECURSIVE TrimStart(_)
TrimStart(s) == IF s # <<>> /\ IsSpace(Head(s)) THEN TrimStart(Tail(s)) ELSE s
RECURSIVE TrimEnd(_)
TrimEnd(s) ==
    IF s # <<>> /\ IsSpace(s[Len(s)]) THEN TrimEnd(SubSeq(s, 1, Len(s) - 1)) ELSE s
Trim(s) == TrimEnd(TrimStart(s))
LowerChar(ch) == IF ch = "A" THEN "a" ELSE IF ch = "B" THEN "b" ELSE ch
ToLowerCase(s) == [k \in 1..Len(s) |-> LowerChar(s[k])]

\* addon.js:136
lowerKey(title) == ToLowerCase(Trim(title))

----------------------------------------------------------------------------
(* Cache load / save, addon.js:44-79 *)

SaveDelay == 400
ExitDelay == 150

\* saveTimer: whether the variable holds a handle, whether that timer is still
\* to fire, when, and (history) whether it was scheduled while entries that a
\* failed write had left unwritten were waiting
NullTimer == [handle |-> FALSE, active |-> FALSE, due |-> 0, retry |-> FALSE]

\* JSON.stringify(Object.fromEntries(map.entries())) followed by JSON.parse:
\* a property whose value is undefined is omitted, null is kept.
JsonRoundTrip(m) == [k \in {x \in DOMAIN m : m[x] # Undefined} |-> m[k]]

\* The file on disk: whether it exists, what readFileSync / JSON.parse make of
\* it ("object", "scalar", "invalid" JSON, "unreadable"), and the two members
\* of the object.
NoFile == [exists |-> FALSE, content |-> "object", posterCache |-> EmptyMap,
           imdbFindCache |-> EmptyMap]

\* addon.js:67-71, the object written by the save timer
CacheFileOf(p, f) ==
    [exists |-> TRUE, content |-> "object", posterCache |-> JsonRoundTrip(p),
     imdbFindCache |-> JsonRoundTrip(f)]

\* addon.js:62-77: no new timer while the handle is set
scheduleSaveCache(st) ==
    IF st.handle THEN st
    ELSE [handle |-> TRUE, active |-> TRUE, due |-> now + SaveDelay, retry |-> unsaved]

\* clearTimeout(saveTimer): the timer is cancelled, the variable keeps the handle
clearTimeout(st) == [st EXCEPT !.active = FALSE]

\* addon.js:47-48  readFileSync or JSON.parse throws
LoadThrows(fl) == fl.exists /\ fl.content \in {"unreadable", "invalid"}

\* mutant of LoadCatch: the error leaves loadCache
LoadCatch_rethrow(res) == [res EXCEPT !.raised = TRUE]

\* addon.js:56-58  catch (e) { console.error(...) }
LoadCatch(res) == res

\* addon.js:44-60 on a fresh process (both maps empty): the maps afterwards
\* and whether the call raised
loadCache(fl) ==
    LET cold == [posterCache |-> EmptyMap, imdbFindCache |-> EmptyMap, raised |-> FALSE]
    IN IF ~fl.exists THEN cold
       ELSE IF LoadThrows(fl) THEN LoadCatch(cold)
       ELSE IF fl.content # "object" THEN cold
       ELSE [cold EXCEPT !.posterCache = fl.posterCache,
                         !.imdbFindCache = fl.imdbFindCache]

----------------------------------------------------------------------------
(* The cache as the process runs: puts, the save timer, signals, restart *)

\* Values the code stores: addon.js:269,278,283,458,461 (poster) and
\* addon.js:218,226,229,233 (find).
CacheTitles == {<<"A">>, <<" ", "b">>}
PosterValues == {Undefined, <<"poster">>}
FindValues == {Null, <<"imdb", "tt1">>}

MaxPuts == 3

NoSnap == [taken |-> FALSE, clean |-> FALSE, posterCache |-> EmptyMap,
           imdbFindCache |-> EmptyMap]

\* posterCache.set(key, v); scheduleSaveCache();
PosterPut(title, v) ==
    /\ proc = "running"
    /\ puts < MaxPuts
    /\ puts' = puts + 1
    /\ posterCache' = MapSet(posterCache, lowerKey(title), v)
    /\ saveTimer' = scheduleSaveCache(saveTimer)
    /\ unsaved' = TRUE
    /\ bootSnap' = NoSnap

\* imdbFindCache.set(key, v); scheduleSaveCache();
FindPut(title, v) ==
    /\ proc = "running"
    /\ puts < MaxPuts
    /\ puts' = puts + 1
    /\ imdbFindCache' = MapSet(imdbFindCache, lowerKey(title), v)
    /\ saveTimer' = scheduleSaveCache(saveTimer)
    /\ unsaved' = TRUE
    /\ bootSnap' = NoSnap

CachePosterPut ==
    /\ \E title \in CacheTitles, v \in PosterValues : PosterPut(title, v)
    /\ UNCHANGED <<cfgVars, clockVars, imdbFindCache, file, proc, exitTimers, sigSnap,
                   artVars, gateVars, fetches, mapVars>>

CacheFindPut ==
    /\ \E title \in CacheTitles, v \in FindValues : FindPut(title, v)
    /\ UNCHANGED <<cfgVars, clockVars, posterCache, file, proc, exitTimers, sigSnap,
                   artVars, gateVars, fetches, mapVars>>

\* addon.js:64-76, the timer callback; writeFileSync may throw, which is caught
SaveWrite(ok) ==
    /\ saveTimer' = NullTimer
    /\ IF ok
       THEN /\ file' = CacheFileOf(posterCache, imdbFindCache)
            /\ unsaved' = FALSE
       ELSE UNCHANGED <<file, unsaved>>

SaveTimerFire ==
    /\ proc = "running"
    /\ saveTimer.active
    /\ now >= saveTimer.due
    /\ \E ok \in BOOLEAN : SaveWrite(ok)
    /\ UNCHANGED <<cfgVars, clockVars, posterCache, imdbFindCache, proc, exitTimers,
                   bootSnap, sigSnap, puts, artVars, gateVars, fetches, mapVars>>

\* addon.js:78-79, the body shared by the SIGINT and the SIGTERM handler
SignalHandler ==
    /\ proc = "running"
    /\ saveTimer' = scheduleSaveCache(IF saveTimer.handle THEN clearTimeout(saveTimer)
                                                         ELSE saveTimer)
    /\ exitTimers' = exitTimers \cup {now + ExitDelay}
    /\ sigSnap' = IF sigSnap.taken THEN sigSnap
                  ELSE [taken |-> TRUE, clean |-> ~unsaved, posterCache |-> posterCache,
                        imdbFindCache |-> imdbFindCache]
    /\ UNCHANGED <<cfgVars, clockVars, posterCache, imdbFindCache, file, proc, unsaved,
                   bootSnap, puts, artVars, gateVars, fetches, mapVars>>

\* () => process.exit(0): the process ends, its timers with it
ProcessExit ==
    /\ proc = "running"
    /\ \E d \in exitTimers : now >= d
    /\ proc' = "exited"
    /\ saveTimer' = NullTimer
    /\ exitTimers' = {}
    /\ UNCHANGED <<cfgVars, clockVars, posterCache, imdbFindCache, file, unsaved,
                   bootSnap, sigSnap, puts, artVars, gateVars, fetches, mapVars>>

\* A fresh process: empty maps, then loadCache() (addon.js:520)
Restart ==
    /\ proc = "exited"
    /\ proc' = IF loadCache(file).raised THEN "crashed" ELSE "running"
    /\ bootSnap' = [taken |-> TRUE, clean |-> ~unsaved, posterCache |-> posterCache,
                    imdbFindCache |-> imdbFindCache]
    /\ posterCache' = loadCache(file).posterCache
    /\ imdbFindCache' = loadCache(file).imdbFindCache
    /\ unsaved' = FALSE
    /\ sigSnap' = NoSnap
    /\ UNCHANGED <<cfgVars, clockVars, saveTimer, file, exitTimers, puts,
                   artVars, gateVars, fetches, mapVars>>

\* Timers of the running process that are still to fire
CacheDues ==
    IF proc = "running"
    THEN exitTimers \cup (IF saveTimer.active THEN {saveTimer.due} ELSE {})
    ELSE {}

\* The clock advances by d, but not past the next timer (timers fire on time)
AdvanceTo(d, dues) ==
    LET later == {x \in dues : x >= now}
        t == now + d
    IN IF \E x \in later : x < t THEN CHOOSE x \in later : \A y \in later : x <= y ELSE t

MaxTicks == 4
CacheTickSteps == {150, 400}

CacheTick ==
    /\ ticks < MaxTicks
    /\ \A x \in CacheDues : x > now
    /\ \E d \in CacheTickSteps : now' = AdvanceTo(d, CacheDues)
    /\ ticks' = ticks + 1
    /\ UNCHANGED <<cfgVars, cacheVars, artVars, gateVars, fetches, mapVars>>

----------------------------------------------------------------------------
(* IMDb rate limit, addon.js:141-155, and the requests that pass through it *)

\* Host names as token sequences; the first is the host of the suggestion
\* endpoint (addon.js:199), the second the host of the find page and of the
\* title page (addon.js:219, 228).
SuggestHost == <<"v2", ".", "sg", ".", "media-", "imdb", ".", "com">>
ImdbHost == <<"www", ".", "imdb", ".", "com">>

SuggestUrl == [kind |-> "suggest", host |-> SuggestHost]
FindUrl == [kind |-> "find", host |-> ImdbHost]
DetailUrl == [kind |-> "detail", host |-> ImdbHost]
ImdbSourceUrls == {SuggestUrl, FindUrl, DetailUrl}

\* The search endpoint of the structured source (addon.js:168, 171)
TmdbHost == <<"api", ".", "themoviedb", ".", "org">>
TmdbUrl == [kind |-> "tmdb", host |-> TmdbHost]

\* addon.js:144  /(^|\.)imdb\.com$/i.test(new URL(u).hostname)
isImdbHost(u) ==
    LET h == u.host
        n == Len(h)
    IN /\ n >= 3
       /\ SubSeq(h, n - 2, n) = <<"imdb", ".", "com">>
       /\ (n = 3 \/ h[n - 3] = ".")

WindowMs == 1000
WaitBase == 1001
MinSleep == 5

\* addon.js:150  while (length && t - ts[0] > 1000) shift()
RECURSIVE PruneWindow(_, _)
PruneWindow(ts, t) ==
    IF ts # <<>> /\ t - Head(ts) > WindowMs THEN PruneWindow(Tail(ts), t) ELSE ts

\* mutant of HasRoom: an off-by-one in the ceiling test
HasRoom_offByOne(ts) == Len(ts) <= IMDB_MAX_RPS

\* addon.js:151  imdbTimestamps.length < IMDB_MAX_RPS
HasRoom(ts) == Len(ts) < IMDB_MAX_RPS

\* mutant of SleepFor: the caller sleeps until the oldest timestamp is exactly
\* 1000 ms old
SleepFor_exact(ts, t) ==
    LET wait == WindowMs - (t - Head(ts))
    IN IF wait > MinSleep THEN wait ELSE MinSleep

\* addon.js:152-153  the sleep of a caller that found the window full
SleepFor(ts, t) ==
    LET wait == WaitBase - (t - Head(ts))
    IN IF wait > MinSleep THEN wait ELSE MinSleep

\* A caller: its position, its URL, when its sleep ends, when its request
\* was sent, and history (stamped: it pushed a timestamp; blocked: it found
\* the window full; blockedHead: the oldest timestamp it saw then;
\* blockedPushes: how many timestamps had been pushed in all by then;
\* sleeps: how many times it has slept).
IdleCaller == [pc |-> "idle", url |-> SuggestUrl, wake |-> 0, sentAt |-> 0,
               stamped |-> FALSE, blocked |-> FALSE, blockedHead |-> 0,
               blockedPushes |-> 0, sleeps |-> 0]

\* Number of timestamps pushed so far
Pushes == Cardinality({d \in DOMAIN gate : gate[d].stamped})

\* addon.js:148-154, one pass of the while (true) loop, up to its return or
\* its await sleep(...)
GateLoop(c, url) ==
    LET t == now
        ts == PruneWindow(imdbTimestamps, t)
    IN IF HasRoom(ts)
       THEN /\ imdbTimestamps' = Append(ts, t)
            /\ gate' = [gate EXCEPT ![c].pc = "sent", ![c].url = url,
                                    ![c].sentAt = t, ![c].stamped = TRUE]
       ELSE /\ imdbTimestamps' = ts
            /\ gate' = [gate EXCEPT ![c].pc = "sleeping", ![c].url = url,
                                    ![c].wake = t + SleepFor(ts, t),
                                    ![c].blocked = TRUE,
                                    ![c].blockedHead = Head(ts),
                                    ![c].blockedPushes = Pushes,
                                    ![c].sleeps = @ + 1]

\* mutant of Bypass: the host is not looked at
Bypass_ceilingOnly(url) == IMDB_MAX_RPS <= 0

\* addon.js:146-147  the two early returns
Bypass(url) == IMDB_MAX_RPS <= 0 \/ ~isImdbHost(url)

\* addon.js:145-155 from its entry, followed by the request of the caller
\* (addon.js:200-202, 220-222, 246-248)
maybeRateLimitIMDb(c, url) ==
    IF Bypass(url)
    THEN /\ gate' = [gate EXCEPT ![c].pc = "sent", ![c].url = url, ![c].sentAt = now]
         /\ UNCHANGED imdbTimestamps
    ELSE GateLoop(c, url)

GateCall ==
    /\ \E c \in DOMAIN gate, url \in ImdbSourceUrls :
         /\ gate[c].pc = "idle"
         /\ \A d \in 1..(c - 1) : gate[d].pc # "idle"   \* numbered in calling order
         /\ maybeRateLimitIMDb(c, url)
    /\ UNCHANGED <<cfgVars, clockVars, cacheVars, artVars, fetches, mapVars>>

\* addon.js:169, 172: tmdbSearchTitle sends its request with no call of
\* maybeRateLimitIMDb
TmdbRequest ==
    /\ \E c \in DOMAIN gate :
         /\ gate[c].pc = "idle"
         /\ \A d \in 1..(c - 1) : gate[d].pc # "idle"
         /\ gate' = [gate EXCEPT ![c].pc = "sent", ![c].url = TmdbUrl, ![c].sentAt = now]
    /\ UNCHANGED <<cfgVars, clockVars, cacheVars, artVars, imdbTimestamps, fetches, mapVars>>

\* mutant of AfterSleep: the caller goes on after one sleep without looking
\* at the window again
AfterSleep_once(c, url) ==
    /\ imdbTimestamps' = Append(imdbTimestamps, now)
    /\ gate' = [gate EXCEPT ![c].pc = "sent", ![c].sentAt = now, ![c].stamped = TRUE]

\* addon.js:148  while (true): after the sleep the whole pass runs again
AfterSleep(c, url) == GateLoop(c, url)

\* the sleep of addon.js:153 is over: the loop runs again
GateWake ==
    /\ \E c \in DOMAIN gate :
         /\ gate[c].pc = "sleeping"
         /\ now >= gate[c].wake
         /\ AfterSleep(c, gate[c].url)
    /\ UNCHANGED <<cfgVars, clockVars, cacheVars, artVars, fetches, mapVars>>

GateTickSteps == {1, 1000}

GateMaxTicks == 3

GateTick ==
    /\ ticks < GateMaxTicks
    /\ \E d \in GateTickSteps : now' = now + d
    /\ ticks' = ticks + 1
    /\ UNCHANGED <<cfgVars, cacheVars, artVars, gateVars, fetches, mapVars>>

\* The clock of a run in which timers fire when due: it advances while a
\* caller sleeps, and not past the end of a sleep
GateWakes == {gate[c].wake : c \in {d \in DOMAIN gate : gate[d].pc = "sleeping"}}

GateClockSteps == {500, 1000}

GateClock ==
    /\ GateWakes # {}
    /\ \A x \in GateWakes : x > now
    /\ \E d \in GateClockSteps : now' = AdvanceTo(d, GateWakes)
    /\ UNCHANGED <<cfgVars, ticks, cacheVars, artVars, gateVars, fetches, mapVars>>

MaxGateCallers == 3
MaxRps == 2

----------------------------------------------------------------------------
(* Fetch client, addon.js:111-128 *)

FetchTimeoutMs == 15000

IdleFetch == [kind |-> "text", pc |-> "idle", start |-> 0, timerActive |-> FALSE,
              timerDue |-> 0, outcome |-> "none"]

\* addon.js:112-113: fetchText arms an abort timer; addon.js:125: fetchJSON
\* passes no signal and arms none
ArmsAbortTimer(kind) == kind = "text"

\* the call: the request is sent, the function awaits the response
FetchStart ==
    /\ \E f \in DOMAIN fetches, kind \in {"text", "json"} :
         /\ fetches[f].pc = "idle"
         /\ fetches' = [fetches EXCEPT ![f] =
                [kind |-> kind, pc |-> "headers", start |-> now,
                 timerActive |-> ArmsAbortTimer(kind),
                 timerDue |-> IF ArmsAbortTimer(kind) THEN now + FetchTimeoutMs ELSE 0,
                 outcome |-> "none"]]
    /\ UNCHANGED <<cfgVars, clockVars, cacheVars, artVars, gateVars, mapVars>>

\* Leaving fetchText runs finally { clearTimeout(timer) } (addon.js:122)
FetchEnd(f, outcome) ==
    fetches' = [fetches EXCEPT ![f].pc = "done", ![f].outcome = outcome,
                               ![f].timerActive = FALSE]

\* the response head arrives: addon.js:118 / 126 throw on a status that is not ok
FetchResponse ==
    /\ \E f \in DOMAIN fetches, ok \in BOOLEAN :
         /\ fetches[f].pc = "headers"
         /\ IF ok THEN fetches' = [fetches EXCEPT ![f].pc = "body"]
                  ELSE FetchEnd(f, "remote")
    /\ UNCHANGED <<cfgVars, clockVars, cacheVars, artVars, gateVars, mapVars>>

\* the body arrives: res.text() (addon.js:119) or res.json() (addon.js:127),
\* which rejects on a body that is not JSON
FetchBody ==
    /\ \E f \in DOMAIN fetches, wellFormed \in BOOLEAN :
         /\ fetches[f].pc = "body"
         /\ FetchEnd(f, IF fetches[f].kind = "json" /\ ~wellFormed THEN "parse" ELSE "body")
    /\ UNCHANGED <<cfgVars, clockVars, cacheVars, artVars, gateVars, mapVars>>

\* the connection fails: fetch() or the body read rejects
FetchNetworkError ==
    /\ \E f \in DOMAIN fetches :
         /\ fetches[f].pc \in {"headers", "body"}
         /\ FetchEnd(f, "network")
    /\ UNCHANGED <<cfgVars, clockVars, cacheVars, artVars, gateVars, mapVars>>

\* addon.js:113: the timer fires, controller.abort() cancels the request and
\* the pending await rejects
FetchAbort ==
    /\ \E f \in DOMAIN fetches :
         /\ fetches[f].pc \in {"headers", "body"}
         /\ fetches[f].timerActive
         /\ now >= fetches[f].timerDue
         /\ FetchEnd(f, "timeout")
    /\ UNCHANGED <<cfgVars, clockVars, cacheVars, artVars, gateVars, mapVars>>

FetchDues == {fetches[f].timerDue : f \in {g \in DOMAIN fetches : fetches[g].timerActive}}

FetchTickSteps == {1, 5000, 15000}
FetchMaxTicks == 4

FetchTick ==
    /\ ticks < FetchMaxTicks
    /\ \A x \in FetchDues : x > now
    /\ \E d \in FetchTickSteps : now' = AdvanceTo(d, FetchDues)
    /\ ticks' = ticks + 1
    /\ UNCHANGED <<cfgVars, cacheVars, artVars, gateVars, fetches, mapVars>>

MaxFetches == 2

----------------------------------------------------------------------------
(* Concurrency helper, addon.js:335-348 *)

\* The mapper argument: it rejects (or throws) on the item "bad" and resolves
\* with a value made of the item and its index otherwise.
MapItems == {"a", "b", "bad"}
MapperThrows(item) == item = "bad"
MapperResult(item, idx) == <<"mapped", item, idx>>

MaxItems == 3
MaxLimit == 3

RECURSIVE SeqsUpTo(_, _)
SeqsUpTo(S, n) ==
    IF n = 0 THEN {<<>>}
    ELSE LET shorter == SeqsUpTo(S, n - 1)
         IN shorter \cup {Append(q, x) : q \in {r \in shorter : Len(r) = n - 1}, x \in S}

\* mutant of WriteSlot: results collected in completion order
WriteSlot_push(res, idx, v) == Append(res, v)

\* addon.js:342-343  results[idx] = ...   (idx counts from 0)
WriteSlot(res, idx, v) == [res EXCEPT ![idx + 1] = v]

\* mutant of ClaimNext: the counter is read one step late
ClaimNext_stale(n) ==
    LET m == IF n > 0 THEN n - 1 ELSE 0
    IN IF m >= Len(items) THEN [pc |-> "done", idx |-> m]
                          ELSE [pc |-> "awaiting", idx |-> m]

\* addon.js:340-342: idx = i++; past the end the worker ends, otherwise it
\* calls the mapper and awaits it.  Gives the worker's record for counter n.
ClaimNext(n) ==
    IF n >= Len(items) THEN [pc |-> "done", idx |-> n]
                       ELSE [pc |-> "awaiting", idx |-> n]

\* addon.js:342  mapper(items[idx], idx) is called by a worker that claimed idx
Called(app, rec) ==
    IF rec.pc = "awaiting" /\ rec.idx + 1 \in DOMAIN app
    THEN [app EXCEPT ![rec.idx + 1] = @ + 1] ELSE app

RECURSIVE CalledAll(_, _)
CalledAll(app, recs) ==
    IF recs = <<>> THEN app ELSE CalledAll(Called(app, Head(recs)), Tail(recs))

\* addon.js:336-346 up to the await of Promise.all: the array is allocated
\* and every worker runs to its first await, one after the other
pMapLimitCall ==
    /\ mapDone = "idle"
    /\ LET n == Min(limit, Len(items))
       IN /\ results' = [k \in 1..Len(items) |-> Undefined]
          /\ workers' = [w \in 1..n |-> ClaimNext(w - 1)]
          /\ applied' = CalledAll([k \in 1..Len(items) |-> 0],
                                  [w \in 1..n |-> ClaimNext(w - 1)])
          /\ i' = n
    /\ mapDone' = "pending"
    /\ UNCHANGED <<cfgVars, clockVars, cacheVars, artVars, gateVars, fetches, items, limit>>

\* mutant of MapperCatch: the error of the mapper is not caught, the worker
\* rejects and Promise.all with it
MapperCatch_rethrow(w, idx) ==
    /\ workers' = [workers EXCEPT ![w].pc = "rejected"]
    /\ mapDone' = "rejected"
    /\ UNCHANGED <<results, i, applied>>

\* addon.js:343  catch { results[idx] = undefined; }  and the loop goes on
MapperCatch(w, idx) ==
    /\ results' = WriteSlot(results, idx, Undefined)
    /\ workers' = [workers EXCEPT ![w] = ClaimNext(i)]
    /\ applied' = Called(applied, ClaimNext(i))
    /\ i' = i + 1
    /\ UNCHANGED mapDone

\* addon.js:342  results[idx] = await mapper(...)  and the loop goes on
MapperReturn(w, idx, v) ==
    /\ results' = WriteSlot(results, idx, v)
    /\ workers' = [workers EXCEPT ![w] = ClaimNext(i)]
    /\ applied' = Called(applied, ClaimNext(i))
    /\ i' = i + 1
    /\ UNCHANGED mapDone

\* addon.js:342-343 then 339-342 again: the awaited mapper settles, the slot
\* is written, and the worker claims the next index
WorkerStep ==
    /\ mapDone = "pending"
    /\ \E w \in DOMAIN workers :
         /\ workers[w].pc = "awaiting"
         /\ LET idx == workers[w].idx
                item == items[idx + 1]
            IN IF MapperThrows(item) THEN MapperCatch(w, idx)
               ELSE MapperReturn(w, idx, MapperResult(item, idx))
    /\ UNCHANGED <<cfgVars, clockVars, cacheVars, artVars, gateVars, fetches, items, limit>>

\* addon.js:346-347: every worker has ended, Promise.all resolves and the
\* results array is returned
MapResolve ==
    /\ mapDone = "pending"
    /\ \A w \in DOMAIN workers : workers[w].pc = "done"
    /\ mapDone' = "resolved"
    /\ UNCHANGED <<cfgVars, clockVars, cacheVars, artVars, gateVars, fetches, items, limit,
                   i, results, workers, applied>>

----------------------------------------------------------------------------
(* Art sources and bestPosterForTitle, addon.js:160-285, and the art lookup  *)
(* of parseMoviePage, addon.js:453-463                                       *)

\* Title characters: letters, the space and "S" for a lone surrogate (a code
\* unit encodeURIComponent rejects).
ArtTitles == {<<" ", "A">>, <<"S">>, <<" ">>}
MovieTitles == {<<" ", "A">>}

IsWordChar(ch) == ch \in {"A", "a", "B", "b"}
HasLoneSurrogate(s) == \E k \in 1..Len(s) : s[k] = "S"

\* addon.js:196  title.normalize('NFKD').replace(/[^\w\s-]/g, ' ').trim()
SuggestQuery(title) ==
    Trim([k \in 1..Len(title) |->
            IF IsWordChar(title[k]) \/ IsSpace(title[k]) \/ title[k] = "-"
            THEN title[k] ELSE " "])

\* addon.js:217  rawTitle.replace(/\s+/g, ' ').trim(), empty or not
FindQueryEmpty(title) == Trim(title) = <<>>

\* addon.js:160-163
tmdbImg(path, size) ==
    IF ~Truthy(path) THEN Undefined ELSE <<"https://image.tmdb.org/t/p/", size>> \o path

\* addon.js:177-184, for the first search result (or none)
NoArt == [poster |-> Undefined, backdrop |-> Undefined]
NoHit == [found |-> FALSE, poster_path |-> Null, backdrop_path |-> Null]
tmdbArtForTitle(hit) ==
    IF ~hit.found THEN NoArt
    ELSE [poster |-> tmdbImg(hit.poster_path, "w500"),
          backdrop |-> IF Truthy(tmdbImg(hit.backdrop_path, "original"))
                       THEN tmdbImg(hit.backdrop_path, "original")
                       ELSE tmdbImg(hit.poster_path, "original")]

\* mutant of upscaleImdbImage: the size suffix is kept
upscaleImdbImage_keep(u) == u

\* addon.js:189-194  u.replace(/\.(_V1_)[^\.]+(\.jpg|\.png)$/i, '._V1_$2')
\* over the tokens of an image URL
upscaleImdbImage(u) ==
    LET n == Len(u)
    IN IF /\ n >= 4
          /\ u[n] \in {".jpg", ".png"}
          /\ u[n - 1] \notin {".", "_V1_"}
          /\ u[n - 2] = "_V1_"
          /\ u[n - 3] = "."
       THEN SubSeq(u, 1, n - 2) \o <<u[n]>>
       ELSE u

\* What the upstream services may answer
TmdbHits == {[found |-> TRUE, poster_path |-> <<"/p">>, backdrop_path |-> <<"/b">>],
             [found |-> TRUE, poster_path |-> Null, backdrop_path |-> <<"/b">>],
             [found |-> TRUE, poster_path |-> Null, backdrop_path |-> Null]}
TmdbResponses ==
    {[status |-> "throw", hit |-> NoHit], [status |-> "empty", hit |-> NoHit]}
    \cup {[status |-> "results", hit |-> h] : h \in TmdbHits}
SizedImage == <<"https://m.media-amazon.com/images/M/x", ".", "_V1_", "UX182_", ".jpg">>
SuggestResponses ==
    {[status |-> "throw", image |-> Undefined], [status |-> "nopick", image |-> Undefined],
     [status |-> "pick", image |-> Undefined], [status |-> "pick", image |-> SizedImage]}
TitlePage == <<"https://www.imdb.com", "/title/tt1", "/">>
FindResponses ==
    {[status |-> "throw", url |-> Null], [status |-> "nohref", url |-> Null],
     [status |-> "hrefNoMatch", url |-> Null], [status |-> "href", url |-> TitlePage]}
OgImage == <<"https://m.media-amazon.com/images/M/og", ".jpg">>
DetailResponses ==
    {[status |-> "throw", image |-> Undefined], [status |-> "page", image |-> Undefined],
     [status |-> "page", image |-> OgImage]}

NothingStored == <<"nothing stored">>
NotCalled == <<"not called">>

\* A call: its position and result, and the history the claims read
\* (startedWarm: posterCache had the key when it started; afterNeg: a call for
\* the key had completed with both sources missing; first: what the first
\* completed call for the key had returned; the requests it issued; what the
\* structured source gave it; whether it entered imdbDetailsByTitle; what it
\* stored and under which key; the image of the suggestion it picked; what
\* imdbFindTitleUrl returned to it; whether an error escaped
\* imdbDetailsByTitle).
IdleCall == [kind |-> "best", pc |-> "idle", title |-> <<>>, ret |-> Undefined,
             neg |-> FALSE, startedWarm |-> FALSE, afterNeg |-> FALSE,
             hasFirst |-> FALSE, first |-> Undefined,
             tmdbAsked |-> FALSE, suggestAsked |-> FALSE, pageAsked |-> FALSE,
             tmdbTried |-> FALSE, art |-> NoArt, imdbTried |-> FALSE,
             stored |-> NothingStored, storedKey |-> <<>>, picked |-> Undefined,
             found |-> NotCalled, escaped |-> FALSE]

\* The synchronous continuation of a call is computed on a record holding the
\* call, both caches and whether scheduleSaveCache() was called.
KeyOf(st) == lowerKey(st.call.title)
Done(st, v) == [st EXCEPT !.call.pc = "done", !.call.ret = v]
Request(st, what) ==
    [st EXCEPT !.call.pc = what,
               !.call.tmdbAsked = @ \/ what \in {"tmdbPT", "tmdbAny"},
               !.call.suggestAsked = @ \/ what = "suggest",
               !.call.pageAsked = @ \/ what \in {"find", "detail"}]
\* posterCache.set(key, v); scheduleSaveCache();
SetPoster(st, v) ==
    [st EXCEPT !.p = MapSet(st.p, KeyOf(st), v), !.put = TRUE, !.call.stored = v,
               !.call.storedKey = KeyOf(st)]
\* imdbFindCache.set(key, v); scheduleSaveCache();
SetFind(st, v) == [st EXCEPT !.f = MapSet(st.f, KeyOf(st), v), !.put = TRUE]

\* addon.js:283-284
BestMiss(st) == Done([SetPoster(st, Undefined) EXCEPT !.call.neg = TRUE], Undefined)

\* mutant of BestCatch: the error leaves bestPosterForTitle
BestCatch_rethrow(st) == [st EXCEPT !.call.pc = "threw"]

\* addon.js:281  catch {}  followed by 283-284
BestCatch(st) == BestMiss(st)

\* An error leaves imdbDetailsByTitle: addon.js:281 (bestPosterForTitle) or
\* addon.js:463 (parseMoviePage)
ImdbThrew(st) ==
    IF st.call.kind = "best" THEN BestCatch([st EXCEPT !.call.escaped = TRUE])
    ELSE Done([st EXCEPT !.call.escaped = TRUE], Undefined)

\* imdbDetailsByTitle has returned det: addon.js:277-284 or addon.js:461
AfterImdb(st, image) ==
    IF st.call.kind = "best"
    THEN IF Truthy(image) THEN Done(SetPoster(st, image), image) ELSE BestMiss(st)
    ELSE IF Truthy(image) THEN Done(SetPoster(st, image), Undefined)
         ELSE Done(st, Undefined)

\* imdbFindTitleUrl has returned url: addon.js:245-246
AfterFind(st, url) ==
    LET st1 == [st EXCEPT !.call.found = url]
    IN IF ~Truthy(url) THEN AfterImdb(st1, Undefined) ELSE Request(st1, "detail")

\* mutant of FindCached: a cached negative is looked up again
FindCached_truthy(f, key) == MapHas(f, key) /\ Truthy(f[key])

\* addon.js:216  imdbFindCache.has(key)
FindCached(f, key) == MapHas(f, key)

\* addon.js:215-220, imdbFindTitleUrl up to its first await; encodeURIComponent
\* throws outside any try of imdbFindTitleUrl and imdbDetailsByTitle
EnterFind(st) ==
    IF FindCached(st.f, KeyOf(st))
    THEN AfterFind(st, IF Truthy(MapGet(st.f, KeyOf(st))) THEN st.f[KeyOf(st)] ELSE Null)
    ELSE IF HasLoneSurrogate(st.call.title) THEN ImdbThrew(st)
    ELSE IF FindQueryEmpty(st.call.title) THEN AfterFind(SetFind(st, Null), Null)
    ELSE Request(st, "find")

\* addon.js:240 and 196-200, imdbDetailsByTitle / imdbSuggest up to the first await
EnterImdb(st) ==
    LET st1 == [st EXCEPT !.call.imdbTried = TRUE]
    IN IF SuggestQuery(st.call.title) = <<>> THEN EnterFind(st1)
       ELSE Request(st1, "suggest")

\* addon.js:267  art.poster || art.backdrop
Chosen(artw) == IF Truthy(artw.poster) THEN artw.poster ELSE artw.backdrop

\* tmdbArtForTitle has returned: addon.js:267-273 or addon.js:456-458
AfterTmdb(st, hit) ==
    LET artw == tmdbArtForTitle(hit)
        st1 == [st EXCEPT !.call.tmdbTried = TRUE, !.call.art = artw]
    IN IF st.call.kind = "best"
       THEN IF Truthy(Chosen(artw)) THEN Done(SetPoster(st1, Chosen(artw)), Chosen(artw))
            ELSE EnterImdb(st1)
       ELSE IF Truthy(artw.poster) THEN Done(SetPoster(st1, artw.poster), Undefined)
            ELSE Done(st1, Undefined)

\* addon.js:165-169, tmdbSearchTitle up to its first await; encodeURIComponent
\* throws inside the try
EnterTmdb(st) ==
    IF HasLoneSurrogate(st.call.title) THEN AfterTmdb(st, NoHit)
    ELSE Request(st, "tmdbPT")

\* mutant of PosterCached: a cached negative is resolved again
PosterCached_truthy(p, key) == MapHas(p, key) /\ Truthy(p[key])

\* addon.js:261  posterCache.has(key)
PosterCached(p, key) == MapHas(p, key)

\* mutant of SourceOrder: the scraped-site source is asked first
SourceOrder_imdbFirst(st) == EnterImdb(st)

\* addon.js:264-276  TMDB first when a key is configured, IMDb otherwise
SourceOrder(st) == IF TMDB_KEY THEN EnterTmdb(st) ELSE EnterImdb(st)

\* addon.js:260-264, bestPosterForTitle up to its first await
BestEnter(st) ==
    IF PosterCached(st.p, KeyOf(st))
    THEN Done(st, IF Truthy(MapGet(st.p, KeyOf(st))) THEN st.p[KeyOf(st)] ELSE Undefined)
    ELSE SourceOrder(st)

\* addon.js:453-460, the art lookup of parseMoviePage up to its first await
MetaEnter(st) == IF TMDB_KEY THEN EnterTmdb(st) ELSE EnterImdb(st)

StateOf(c) == [call |-> calls[c], p |-> posterCache, f |-> imdbFindCache, put |-> FALSE]

\* The step of call c ends in st
Commit(c, st) ==
    /\ calls' = [calls EXCEPT ![c] = st.call]
    /\ posterCache' = st.p
    /\ imdbFindCache' = st.f
    /\ saveTimer' = IF st.put THEN scheduleSaveCache(saveTimer) ELSE saveTimer
    /\ unsaved' = (unsaved \/ st.put)
    /\ firstRet' = IF st.call.pc = "done" /\ st.call.kind = "best"
                      /\ ~MapHas(firstRet, KeyOf(st))
                   THEN MapSet(firstRet, KeyOf(st), st.call.ret)
                   ELSE firstRet
    /\ UNCHANGED <<cfgVars, clockVars, file, proc, exitTimers, bootSnap, sigSnap, puts,
                   gateVars, fetches, mapVars>>

NewCall(c, kind, title) ==
    LET key == lowerKey(title)
    IN [StateOf(c) EXCEPT
          !.call.kind = kind,
          !.call.title = title,
          !.call.startedWarm = MapHas(posterCache, key),
          !.call.afterNeg = \E d \in DOMAIN calls :
                               /\ calls[d].pc = "done"
                               /\ calls[d].kind = "best"
                               /\ calls[d].neg
                               /\ lowerKey(calls[d].title) = key,
          !.call.hasFirst = MapHas(firstRet, key),
          !.call.first = MapGet(firstRet, key)]

\* Calls that wait for an answer
Waiting(cs) == {d \in DOMAIN cs : cs[d].pc \notin {"idle", "done", "threw"}}
MaxInFlight == 2

\* bestPosterForTitle(title) is called (addon.js:401)
BestPosterStart ==
    \E c \in DOMAIN calls, title \in ArtTitles :
        /\ calls[c].pc = "idle"
        /\ Cardinality(Waiting(calls)) < MaxInFlight
        /\ \A d \in 1..(c - 1) : calls[d].pc # "idle"   \* numbered in calling order
        /\ Commit(c, BestEnter(NewCall(c, "best", title)))

\* parseMoviePage reaches its art lookup (addon.js:453); name is not blank
\* (addon.js:417-420)
MoviePageStart ==
    \E c \in DOMAIN calls, title \in MovieTitles :
        /\ calls[c].pc = "idle"
        /\ Cardinality(Waiting(calls)) < MaxInFlight
        /\ \A d \in 1..(c - 1) : calls[d].pc # "idle"
        /\ Commit(c, MetaEnter(NewCall(c, "meta", title)))

\* addon.js:169-175: the answer to the pt-PT search, then to the plain one
TmdbResponse ==
    \E c \in DOMAIN calls, r \in TmdbResponses :
        /\ calls[c].pc \in {"tmdbPT", "tmdbAny"}
        /\ Commit(c, IF r.status = "results" THEN AfterTmdb(StateOf(c), r.hit)
                     ELSE IF r.status = "throw" THEN AfterTmdb(StateOf(c), NoHit)
                     ELSE IF calls[c].pc = "tmdbPT" THEN Request(StateOf(c), "tmdbAny")
                     ELSE AfterTmdb(StateOf(c), NoHit))

\* addon.js:202-212 and 241-244: the answer of the suggestion endpoint
SuggestResponse ==
    \E c \in DOMAIN calls, r \in SuggestResponses :
        /\ calls[c].pc = "suggest"
        /\ Commit(c, IF r.status = "pick" /\ Truthy(r.image)
                     THEN AfterImdb([StateOf(c) EXCEPT !.call.picked = r.image],
                                    upscaleImdbImage(r.image))
                     ELSE EnterFind(StateOf(c)))

\* addon.js:222-236: the answer of the find page
FindResponse ==
    \E c \in DOMAIN calls, r \in FindResponses :
        /\ calls[c].pc = "find"
        /\ Commit(c, AfterFind(SetFind(StateOf(c), r.url), r.url))

\* addon.js:248-255: the answer of the title page
DetailResponse ==
    \E c \in DOMAIN calls, r \in DetailResponses :
        /\ calls[c].pc = "detail"
        /\ Commit(c, AfterImdb(StateOf(c), r.image))

MaxCalls == 3

----------------------------------------------------------------------------
(* Specifications *)

IdleInit ==
    /\ TMDB_KEY = FALSE
    /\ IMDB_MAX_RPS = 0
    /\ now = 0
    /\ ticks = 0
    /\ posterCache = EmptyMap
    /\ imdbFindCache = EmptyMap
    /\ saveTimer = NullTimer
    /\ file = NoFile
    /\ proc = "running"
    /\ exitTimers = {}
    /\ unsaved = FALSE
    /\ bootSnap = NoSnap
    /\ sigSnap = NoSnap
    /\ puts = 0
    /\ calls = <<>>
    /\ firstRet = EmptyMap
    /\ imdbTimestamps = <<>>
    /\ gate = <<>>
    /\ fetches = <<>>
    /\ items = <<>>
    /\ limit = 0
    /\ i = 0
    /\ results = <<>>
    /\ workers = <<>>
    /\ applied = <<>>
    /\ mapDone = "idle"

CacheInit == IdleInit

CacheNext ==
    \/ CachePosterPut
    \/ CacheFindPut
    \/ SaveTimerFire
    \/ SignalHandler
    \/ ProcessExit
    \/ Restart
    \/ CacheTick

SpecCache == CacheInit /\ [][CacheNext]_vars

\* Startup from whatever is on disk: a missing, unreadable, malformed or
\* well-formed cache file, then loadCache() and the first puts.
MapsOver(keys, vals) == UNION {[K -> vals] : K \in SUBSET keys}
LoadKeys == {lowerKey(t) : t \in CacheTitles}
LoadFiles ==
    {NoFile}
    \cup {[exists |-> TRUE, content |-> c, posterCache |-> EmptyMap,
           imdbFindCache |-> EmptyMap] : c \in {"unreadable", "invalid", "scalar"}}
    \cup {[exists |-> TRUE, content |-> "object", posterCache |-> pm, imdbFindCache |-> fm] :
             pm \in MapsOver(LoadKeys, PosterValues \ {Undefined}),
             fm \in MapsOver(LoadKeys, FindValues)}

LoadInit ==
    /\ TMDB_KEY = FALSE
    /\ IMDB_MAX_RPS = 0
    /\ now = 0
    /\ ticks = 0
    /\ posterCache = EmptyMap
    /\ imdbFindCache = EmptyMap
    /\ saveTimer = NullTimer
    /\ file \in LoadFiles
    /\ proc = "exited"
    /\ exitTimers = {}
    /\ unsaved = FALSE
    /\ bootSnap = NoSnap
    /\ sigSnap = NoSnap
    /\ puts = 0
    /\ calls = <<>>
    /\ firstRet = EmptyMap
    /\ imdbTimestamps = <<>>
    /\ gate = <<>>
    /\ fetches = <<>>
    /\ items = <<>>
    /\ limit = 0
    /\ i = 0
    /\ results = <<>>
    /\ workers = <<>>
    /\ applied = <<>>
    /\ mapDone = "idle"

LoadNext ==
    \/ Restart
    \/ CachePosterPut
    \/ CacheFindPut

SpecLoad == LoadInit /\ [][LoadNext]_vars

GateInit ==
    /\ TMDB_KEY = FALSE
    /\ IMDB_MAX_RPS \in 0..MaxRps
    /\ now = 0
    /\ ticks = 0
    /\ posterCache = EmptyMap
    /\ imdbFindCache = EmptyMap
    /\ saveTimer = NullTimer
    /\ file = NoFile
    /\ proc = "running"
    /\ exitTimers = {}
    /\ unsaved = FALSE
    /\ bootSnap = NoSnap
    /\ sigSnap = NoSnap
    /\ puts = 0
    /\ calls = <<>>
    /\ firstRet = EmptyMap
    /\ imdbTimestamps = <<>>
    /\ gate = [c \in 1..MaxGateCallers |-> IdleCaller]
    /\ fetches = <<>>
    /\ items = <<>>
    /\ limit = 0
    /\ i = 0
    /\ results = <<>>
    /\ workers = <<>>
    /\ applied = <<>>
    /\ mapDone = "idle"

GateNext ==
    \/ GateCall
    \/ TmdbRequest
    \/ GateWake
    \/ GateTick

SpecGate == GateInit /\ [][GateNext]_vars

\* The gate with time advancing and due sleeps ending (the event loop runs
\* every timer that is due)
GateLiveNext ==
    \/ GateCall
    \/ GateWake
    \/ GateClock

SpecGateLive ==
    GateInit /\ [][GateLiveNext]_vars /\ WF_vars(GateWake) /\ WF_vars(GateClock)

FetchInit ==
    /\ TMDB_KEY = FALSE
    /\ IMDB_MAX_RPS = 0
    /\ now = 0
    /\ ticks = 0
    /\ posterCache = EmptyMap
    /\ imdbFindCache = EmptyMap
    /\ saveTimer = NullTimer
    /\ file = NoFile
    /\ proc = "running"
    /\ exitTimers = {}
    /\ unsaved = FALSE
    /\ bootSnap = NoSnap
    /\ sigSnap = NoSnap
    /\ puts = 0
    /\ calls = <<>>
    /\ firstRet = EmptyMap
    /\ imdbTimestamps = <<>>
    /\ gate = <<>>
    /\ fetches = [f \in 1..MaxFetches |-> IdleFetch]
    /\ items = <<>>
    /\ limit = 0
    /\ i = 0
    /\ results = <<>>
    /\ workers = <<>>
    /\ applied = <<>>
    /\ mapDone = "idle"

FetchNext ==
    \/ FetchStart
    \/ FetchResponse
    \/ FetchBody
    \/ FetchNetworkError
    \/ FetchAbort
    \/ FetchTick

SpecFetch == FetchInit /\ [][FetchNext]_vars

MapInit ==
    /\ TMDB_KEY = FALSE
    /\ IMDB_MAX_RPS = 0
    /\ now = 0
    /\ ticks = 0
    /\ posterCache = EmptyMap
    /\ imdbFindCache = EmptyMap
    /\ saveTimer = NullTimer
    /\ file = NoFile
    /\ proc = "running"
    /\ exitTimers = {}
    /\ unsaved = FALSE
    /\ bootSnap = NoSnap
    /\ sigSnap = NoSnap
    /\ puts = 0
    /\ calls = <<>>
    /\ firstRet = EmptyMap
    /\ imdbTimestamps = <<>>
    /\ gate = <<>>
    /\ fetches = <<>>
    /\ items \in SeqsUpTo(MapItems, MaxItems)
    /\ limit \in 1..MaxLimit
    /\ i = 0
    /\ results = <<>>
    /\ workers = <<>>
    /\ applied = <<>>
    /\ mapDone = "idle"

MapNext ==
    \/ pMapLimitCall
    \/ WorkerStep
    \/ MapResolve

SpecMap == MapInit /\ [][MapNext]_vars

ArtInit ==
    /\ TMDB_KEY \in BOOLEAN
    /\ IMDB_MAX_RPS = 0
    /\ now = 0
    /\ ticks = 0
    /\ posterCache = EmptyMap
    /\ imdbFindCache = EmptyMap
    /\ saveTimer = NullTimer
    /\ file = NoFile
    /\ proc = "running"
    /\ exitTimers = {}
    /\ unsaved = FALSE
    /\ bootSnap = NoSnap
    /\ sigSnap = NoSnap
    /\ puts = 0
    /\ calls = [c \in 1..MaxCalls |-> IdleCall]
    /\ firstRet = EmptyMap
    /\ imdbTimestamps = <<>>
    /\ gate = <<>>
    /\ fetches = <<>>
    /\ items = <<>>
    /\ limit = 0
    /\ i = 0
    /\ results = <<>>
    /\ workers = <<>>
    /\ applied = <<>>
    /\ mapDone = "idle"

ArtNext ==
    \/ BestPosterStart
    \/ MoviePageStart
    \/ TmdbResponse
    \/ SuggestResponse
    \/ FindResponse
    \/ DetailResponse

SpecArt == ArtInit /\ [][ArtNext]_vars

----------------------------------------------------------------------------
(* Claims on the cache *)

SameEntries(snap, p, f) ==
    /\ \A k \in DOMAIN snap.posterCache :
         MapHas(p, k) /\ MapGet(p, k) = MapGet(snap.posterCache, k)
    /\ \A k \in DOMAIN snap.imdbFindCache :
         MapHas(f, k) /\ MapGet(f, k) = MapGet(snap.imdbFindCache, k)

\* C1: persistence round trip. When the previous process had every put written
\* by the save timer before it ended, the fresh process, after loadCache, has
\* every key the previous one had, with the same value (explicit negatives
\* included).
C1_RoundTrip ==
    (proc = "running" /\ bootSnap.taken /\ bootSnap.clean)
        => SameEntries(bootSnap, posterCache, imdbFindCache)

\* C2: shutdown flush. When process.exit runs after SIGINT or SIGTERM, the file
\* holds every put made before the signal.
C2_ShutdownFlush ==
    (proc = "exited" /\ sigSnap.taken)
        => /\ \A k \in DOMAIN JsonRoundTrip(sigSnap.posterCache) :
                MapHas(file.posterCache, k) /\ file.posterCache[k] = sigSnap.posterCache[k]
           /\ \A k \in DOMAIN JsonRoundTrip(sigSnap.imdbFindCache) :
                MapHas(file.imdbFindCache, k)
                /\ file.imdbFindCache[k] = sigSnap.imdbFindCache[k]

BestCalls == {c \in DOMAIN calls : calls[c].kind = "best" /\ calls[c].pc # "idle"}
NoRequest(c) ==
    ~calls[c].tmdbAsked /\ ~calls[c].suggestAsked /\ ~calls[c].pageAsked

\* C3 (negative caching): a bestPosterForTitle call that starts after a call
\* for the same key has completed with both sources missing returns absent
\* and issues no TMDB, suggestion, search or detail request.
C3_NegativeCaching ==
    \A c \in BestCalls :
        calls[c].afterNeg =>
            /\ calls[c].pc = "done"
            /\ calls[c].ret = Undefined
            /\ NoRequest(c)

\* C4 (bestArt is idempotent): a bestPosterForTitle call that starts when the
\* cache holds an entry for its key, after a first call for the key has
\* returned, returns what that first call returned and issues no request.
C4_Idempotent ==
    \A c \in BestCalls :
        (calls[c].startedWarm /\ calls[c].hasFirst) =>
            /\ calls[c].pc = "done"
            /\ calls[c].ret = calls[c].first
            /\ NoRequest(c)

----------------------------------------------------------------------------
(* Claims on the rate gate *)

Sent == {c \in DOMAIN gate : gate[c].pc = "sent"}

\* Requests started in the 1000 ms that end with the start of request c
StartedInWindow(c) ==
    {d \in Sent : gate[d].sentAt <= gate[c].sentAt
                  /\ gate[c].sentAt - gate[d].sentAt < WindowMs}

\* C5: with a positive ceiling N, every request of the scraped-site source
\* (suggestion, search page, detail page) has recorded a timestamp in the rate
\* window before it is sent, and no more than N of them start within any
\* 1000 ms.
C5_EveryImdbRequestGated ==
    IMDB_MAX_RPS > 0 =>
        \A c \in Sent :
            /\ gate[c].stamped
            /\ Cardinality(StartedInWindow(c)) <= IMDB_MAX_RPS

\* C6: with a positive ceiling N the window never holds more than N
\* timestamps, a caller on the gated host returns only with its timestamp
\* recorded, and a caller that found the window full records its timestamp
\* only when the timestamp that was oldest then is more than 1000 ms old.
C6_WindowInvariant ==
    IMDB_MAX_RPS > 0 =>
        /\ Len(imdbTimestamps) <= IMDB_MAX_RPS
        /\ \A c \in Sent :
             isImdbHost(gate[c].url) =>
                /\ gate[c].stamped
                /\ gate[c].blocked => gate[c].sentAt - gate[c].blockedHead > WindowMs

\* C6 witness: a caller that was blocked on a full window has recorded its
\* timestamp while another timestamp is in the window.
C6_Witness ==
    \E c \in Sent :
        /\ gate[c].blocked
        /\ gate[c].stamped
        /\ IMDB_MAX_RPS > 0
        /\ Len(imdbTimestamps) = IMDB_MAX_RPS

----------------------------------------------------------------------------
(* Claims on the fetch client *)

\* C7: fetch deadline. No fetchText call and no fetchJSON call is still
\* pending once more than 15 seconds have passed since it started.
C7_FetchDeadline ==
    \A f \in DOMAIN fetches :
        fetches[f].pc \in {"headers", "body"} => now - fetches[f].start <= FetchTimeoutMs

----------------------------------------------------------------------------
(* Claims on pMapLimit *)

\* C8: for every item list and every limit >= 1, pMapLimit resolves with an
\* (never rejects with) an array as long as items whose slot k holds the mapper's result for items[k],
\* whatever the order in which the mappers settle, and holds undefined where
\* the mapper threw; while it runs, every slot already written holds that
\* value too.
C8_MapResultShape ==
    /\ mapDone # "rejected"
    /\ mapDone \in {"pending", "resolved"} =>
         /\ Len(results) = Len(items)
         /\ \A k \in 1..Len(items) :
              results[k] \in {Undefined,
                              IF MapperThrows(items[k]) THEN Undefined
                              ELSE MapperResult(items[k], k - 1)}
    /\ mapDone = "resolved" =>
         \A k \in 1..Len(items) :
            results[k] = IF MapperThrows(items[k]) THEN Undefined
                         ELSE MapperResult(items[k], k - 1)

\* C8 witness: a call with more items than workers and a throwing item between
\* two others has resolved.
C8_Witness ==
    /\ mapDone = "resolved"
    /\ Len(items) = 3
    /\ limit = 2
    /\ MapperThrows(items[2])
    /\ ~MapperThrows(items[1])
    /\ ~MapperThrows(items[3])


\* C9 (source priority): on a cache miss with TMDB configured the structured
\* source is attempted first; when it yields a poster or a backdrop the call
\* returns and caches that URL (the poster if there is one) and never enters
\* the scraped-site source; the scraped-site source is entered only when TMDB
\* is not configured or has yielded no image.
C9_SourcePriority ==
    \A c \in BestCalls :
        LET k == calls[c]
            structured == IF Truthy(k.art.poster) THEN k.art.poster ELSE k.art.backdrop
        IN /\ (TMDB_KEY /\ ~k.startedWarm) => (k.tmdbTried \/ k.pc \in {"tmdbPT", "tmdbAny"})
           /\ (k.imdbTried \/ k.suggestAsked \/ k.pageAsked) =>
                 (~TMDB_KEY \/ (k.tmdbTried /\ ~Truthy(structured)))
           /\ Truthy(structured) =>
                 /\ k.pc = "done"
                 /\ k.ret = structured
                 /\ k.stored = structured
                 /\ ~k.imdbTried

\* C9 witness: with TMDB configured, one call was answered by the structured
\* source with a backdrop only, and another fell back to the scraped-site
\* source after the structured source had no image and got a URL there.
C9_Witness ==
    /\ TMDB_KEY
    /\ \E c \in BestCalls :
          /\ calls[c].pc = "done"
          /\ ~Truthy(calls[c].art.poster)
          /\ Truthy(calls[c].art.backdrop)
          /\ calls[c].ret = calls[c].art.backdrop
    /\ \E c \in BestCalls :
          /\ calls[c].pc = "done"
          /\ calls[c].tmdbTried
          /\ calls[c].imdbTried
          /\ Truthy(calls[c].ret)

\* C10 (never raises): no bestPosterForTitle call ends by throwing; a call
\* that has completed returned a URL or absent, whatever failed in TMDB or in
\* any stage of the IMDb lookup, and a failure in one call of a batch leaves
\* what the other calls return to their own sources.
C10_NeverRaises ==
    \A c \in BestCalls :
        /\ calls[c].pc # "threw"
        /\ calls[c].pc = "done" =>
              /\ calls[c].ret = Undefined \/ Truthy(calls[c].ret)
              /\ calls[c].escaped => calls[c].ret = Undefined

\* C10 witness: an error escaped imdbDetailsByTitle in one call (a title
\* encodeURIComponent rejects), that call returned absent, and another call of
\* the batch, started later, returned a URL.
C10_Witness ==
    \E c, d \in BestCalls :
        /\ c < d
        /\ calls[c].pc = "done"
        /\ calls[c].escaped
        /\ calls[c].ret = Undefined
        /\ calls[d].pc = "done"
        /\ ~calls[d].startedWarm
        /\ Truthy(calls[d].ret)


\* Every entry of the in-memory caches p and f is in the file fl
FileHoldsAll(fl, p, f) ==
    /\ fl.exists
    /\ \A k \in DOMAIN p : MapHas(fl.posterCache, k) /\ fl.posterCache[k] = p[k]
    /\ \A k \in DOMAIN f : MapHas(fl.imdbFindCache, k) /\ fl.imdbFindCache[k] = f[k]

\* C11 (persist debounce): a save timer is armed only when none is pending; a
\* put made while a timer is pending leaves that timer and its due time as
\* they are; the file is written only by the firing of the pending timer, at
\* its due time, once (the timer is gone afterwards), and what is written then
\* holds every put made since the timer was scheduled (every entry of both
\* caches).
C11_PersistDebounce ==
    [][ /\ (saveTimer'.active /\ saveTimer' # saveTimer) => ~saveTimer.active
        /\ (puts' = puts + 1 /\ saveTimer.active) => saveTimer' = saveTimer
        /\ (file' # file) =>
              /\ saveTimer.active
              /\ now = saveTimer.due
              /\ saveTimer' = NullTimer
              /\ FileHoldsAll(file', posterCache, imdbFindCache) ]_vars


\* C12 (cold start on load failure): startup never raises, and right after
\* loadCache() on a missing, unreadable or malformed cache file both caches
\* are empty and the process is running.
C12_ColdStart ==
    /\ proc # "crashed"
    /\ (bootSnap.taken /\ (~file.exists \/ file.content \in {"unreadable", "invalid"})) =>
          /\ proc = "running"
          /\ posterCache = EmptyMap
          /\ imdbFindCache = EmptyMap

\* C12 witness: the process has started from a cache file that is not valid
\* JSON and runs with both caches empty.
C12_Witness ==
    /\ bootSnap.taken
    /\ file.exists
    /\ file.content = "invalid"
    /\ proc = "running"
    /\ posterCache = EmptyMap
    /\ imdbFindCache = EmptyMap


\* C13 (stage A short-circuit): without a TMDB key, a call whose suggestion
\* answer carried the image ..._V1_UX182_.jpg has completed, returned
\* ..._V1_.jpg, stored that URL under the trimmed, lower-cased title with a
\* save scheduled, and issued no find-page or title-page request.
C13_StageAShortCircuit ==
    \A c \in BestCalls :
        (~TMDB_KEY /\ calls[c].picked = SizedImage) =>
            /\ calls[c].pc = "done"
            /\ calls[c].ret = <<"https://m.media-amazon.com/images/M/x", ".", "_V1_", ".jpg">>
            /\ calls[c].stored = calls[c].ret
            /\ calls[c].storedKey = ToLowerCase(Trim(calls[c].title))
            /\ saveTimer.handle /\ saveTimer.active
            /\ ~calls[c].pageAsked

\* C13 witness: without a TMDB key a call for " A" picked the sized image and
\* has completed with key "a" stored.
C13_Witness ==
    /\ ~TMDB_KEY
    /\ \E c \in BestCalls :
          /\ calls[c].title = <<" ", "A">>
          /\ calls[c].picked = SizedImage
          /\ calls[c].pc = "done"
          /\ calls[c].storedKey = <<"a">>
          /\ MapHas(posterCache, <<"a">>)


\* C14 (gate bypass): a caller of maybeRateLimitIMDb with ceiling 0, or with a
\* URL whose host is not imdb.com or a subdomain of it, has returned in the
\* step of its call, without sleeping and without a timestamp, and the window
\* is as it was; a request of the structured source is sent at once and leaves
\* the window as it was.
C14_GateBypass ==
    [][ \A c \in DOMAIN gate :
          (/\ gate[c].pc = "idle"
           /\ gate'[c].pc # "idle"
           /\ (IMDB_MAX_RPS = 0 \/ ~isImdbHost(gate'[c].url))) =>
              /\ gate'[c].pc = "sent"
              /\ gate'[c].sentAt = now
              /\ ~gate'[c].stamped
              /\ ~gate'[c].blocked
              /\ imdbTimestamps' = imdbTimestamps ]_vars

\* C14 witness: with ceiling 1 and the window full, a request of the
\* structured source and a caller with a URL off the gated host have both
\* gone through at the time of the timestamp in the window.
C14_Witness ==
    /\ IMDB_MAX_RPS = 1
    /\ Len(imdbTimestamps) = 1
    /\ \E c, d \in Sent :
          /\ gate[c].url = TmdbUrl
          /\ ~isImdbHost(gate[d].url)
          /\ gate[d].url \in ImdbSourceUrls
          /\ gate[c].sentAt = imdbTimestamps[1]
          /\ gate[d].sentAt = imdbTimestamps[1]
          /\ ~gate[c].stamped /\ ~gate[d].stamped


\* C15 (cached posters are stable under concurrency): no step of a
\* bestPosterForTitle call changes the value of a key for which posterCache
\* holds a URL.
C15_StablePosters ==
    [][ (\E c \in DOMAIN calls : calls'[c] # calls[c] /\ calls'[c].kind = "best") =>
            \A k \in DOMAIN posterCache :
                Truthy(posterCache[k]) => posterCache'[k] = posterCache[k] ]_vars


InFlight == {w \in DOMAIN workers : workers[w].pc = "awaiting"}

\* C16 (concurrency cap and exactly-once claiming): no index has the mapper
\* called on it more than once, no two workers hold the same index, never
\* more than min(limit, items.length) calls of the mapper are in flight, and
\* when pMapLimit resolves the mapper has been called exactly once on every
\* index.
C16_CapAndExactlyOnce ==
    mapDone \in {"pending", "resolved", "rejected"} =>
        /\ \A k \in 1..Len(items) : applied[k] <= 1
        /\ \A w1, w2 \in InFlight : workers[w1].idx = workers[w2].idx => w1 = w2
        /\ \A w \in InFlight : applied[workers[w].idx + 1] = 1
        /\ Cardinality(InFlight) <= Min(limit, Len(items))
        /\ mapDone = "resolved" => \A k \in 1..Len(items) : applied[k] = 1

\* C16 witness: with three items and limit 2, the third index has been claimed
\* by the worker that finished first while the other call is still in flight.
C16_Witness ==
    /\ mapDone = "pending"
    /\ Len(items) = 3
    /\ limit = 2
    /\ Cardinality(InFlight) = 2
    /\ \E w \in InFlight : workers[w].idx = 2
    /\ applied = <<1, 1, 1>>


\* C17 (rate gate liveness): with time advancing and due sleeps ending, every
\* caller that sleeps in the gate eventually records its timestamp and is
\* through; and a caller that wakes is through in that step only if, after
\* pruning at that time, the window has fewer entries than the ceiling
\* (otherwise it sleeps again).
C17_GateLiveness ==
    /\ \A c \in 1..MaxGateCallers :
          (gate[c].pc = "sleeping") ~> (gate[c].pc = "sent" /\ gate[c].stamped)
    /\ [][ \A c \in DOMAIN gate :
             (gate[c].pc = "sleeping" /\ gate'[c] # gate[c]) =>
                 IF Len(PruneWindow(imdbTimestamps, now)) < IMDB_MAX_RPS
                 THEN gate'[c].pc = "sent" /\ gate'[c].stamped
                 ELSE gate'[c].pc = "sleeping" /\ gate'[c].wake > now ]_vars

\* C17 witness: every caller is through, one of them after having slept
\* twice (after its first sleep the slot had been taken by another caller).
C17_Witness ==
    /\ \A c \in DOMAIN gate : gate[c].pc = "sent"
    /\ \E c \in DOMAIN gate :
          /\ gate[c].stamped
          /\ gate[c].sleeps = 2

\* C20 (wait computation): a caller that finds the window full at time t
\* sleeps max(5, 1001 - (t - oldest)) ms; at the check after its sleep the
\* timestamp that was oldest is more than 1000 ms old and no longer in the
\* window, and the caller sleeps again only if a timestamp was pushed after
\* it had been blocked.
C20_WaitComputation ==
    [][ \A c \in DOMAIN gate :
          /\ (gate'[c].pc = "sleeping" /\ gate'[c] # gate[c]) =>
                LET ts == PruneWindow(imdbTimestamps, now)
                    wait == 1001 - (now - Head(ts))
                IN /\ Len(ts) >= IMDB_MAX_RPS
                   /\ gate'[c].wake - now = IF wait > 5 THEN wait ELSE 5
          /\ (gate[c].pc = "sleeping" /\ gate'[c] # gate[c]) =>
                /\ now - gate[c].blockedHead > 1000
                /\ \A k \in DOMAIN imdbTimestamps' :
                      imdbTimestamps'[k] # gate[c].blockedHead
                /\ gate'[c].pc = "sleeping" => Pushes > gate[c].blockedPushes ]_vars

\* C20 witness: a caller blocked at a time when the oldest timestamp was
\* already 1000 ms old (it slept the minimum of 5 ms) is through.
C20_Witness ==
    \E c \in Sent :
        /\ gate[c].blocked
        /\ gate[c].stamped
        /\ gate[c].wake - gate[c].blockedHead > 1001


\* C18 (save failure handling): when the write of the save timer fails (the
\* timer goes, with no signal delivered, and the puts stay unwritten) the
\* process goes on, both caches are as they were and saveTimer is null again;
\* the next put schedules a new timer, 400 ms ahead; and the write made by a
\* timer scheduled after a failed write holds every entry of both caches,
\* those the failed write should have stored included.
C18_SaveFailure ==
    [][ /\ (/\ saveTimer.active /\ saveTimer' # saveTimer
            /\ puts' = puts /\ ~sigSnap'.taken /\ proc = "running"
            /\ unsaved /\ unsaved') =>
               /\ proc' = "running"
               /\ posterCache' = posterCache
               /\ imdbFindCache' = imdbFindCache
               /\ saveTimer' = NullTimer
        /\ (puts' = puts + 1 /\ unsaved /\ ~saveTimer.handle) =>
               /\ saveTimer'.active
               /\ saveTimer'.due = now + 400
        /\ (saveTimer.retry /\ file' # file) =>
               FileHoldsAll(file', posterCache, imdbFindCache) ]_vars


====
